---------------------------- MODULE Spec2Model ----------------------------
(***************************************************************************)
(* Model of the Aladin book MCP server (src/src/index.ts): the in-memory   *)
(* category dataset, the category search (searchCategories), the two      *)
(* category tools built on it and the asynchronous remote-API tools.       *)
(*                                                                         *)
(* Strings are sequences of UTF-16 code units.  A code unit is written as  *)
(* a TLA+ string: a Latin letter, " ", "/", ">" stand for themselves, and  *)
(* a Hangul syllable is written "h_" followed by its romanisation          *)
(* ("h_so" is U+C18C).                                                     *)
(***************************************************************************)
EXTENDS Integers, Sequences, FiniteSets, TLC

VARIABLES
  categoryData,   \* line 21: the dataset the tools read
  loadedData,     \* what JSON.parse returned at line 21 (never assigned after)
  ttbKey,         \* line 25: ALADIN_TTB_KEY
  inflight,       \* the remote tool invocations waiting at `await axios.get`
  lastResponse,   \* the response a handler returned, until it is sent
  served,         \* whether a response has been sent already
  failed,         \* whether a response with isError has been sent already
  file,           \* aladin_book_categories.json as it is on disk
  envKey,         \* process.env.ALADIN_TTB_KEY
  phase,          \* how far the process has got: module load, registration
                  \* of the tools, main() awaiting connect, serving, exited
  registered      \* the names server.registerTool has been called with

vars == <<categoryData, loadedData, ttbKey, inflight, lastResponse, served,
          failed, file, envKey, phase, registered>>

-----------------------------------------------------------------------------
(* Strings *)

UpperLetters ==
  <<"A","B","C","D","E","F","G","H","I","J","K","L","M",
    "N","O","P","Q","R","S","T","U","V","W","X","Y","Z">>

LowerLetters ==
  <<"a","b","c","d","e","f","g","h","i","j","k","l","m",
    "n","o","p","q","r","s","t","u","v","w","x","y","z">>

\* The Hangul syllables of the curated topic list, in code point order.
HangulSyllables ==
  <<"h_gang", "h_geon", "h_gyeong", "h_gye", "h_gwa", "h_gyo", "h_gug",
    "h_gi", "h_dong", "h_ri", "h_man", "h_mun", "h_bal", "h_sa", "h_seol",
    "h_se", "h_so", "h_sul", "h_si", "h_a", "h_eo", "h_e", "h_yeo",
    "h_yeog", "h_yeong", "h_ye", "h_oe", "h_yo", "h_yug", "h_i", "h_in",
    "h_ja", "h_je", "h_jong", "h_cheol", "h_keom", "h_teo", "h_pyu",
    "h_hag", "h_haeng", "h_hwa">>

\* Position of c in the sequence s, 0 when absent.
IndexOf(s, c) ==
  IF \E i \in 1..Len(s) : s[i] = c
  THEN CHOOSE i \in 1..Len(s) : s[i] = c
  ELSE 0

\* Every code unit of the model.
CodeUnits ==
  {UpperLetters[i] : i \in 1..Len(UpperLetters)}
    \cup {LowerLetters[i] : i \in 1..Len(LowerLetters)}
    \cup {HangulSyllables[i] : i \in 1..Len(HangulSyllables)}
    \cup {" ", "/", ">"}

\* The lower case form of each code unit: only the upper case letters have
\* another one.
LowerCaseOf ==
  [c \in CodeUnits |->
     IF IndexOf(UpperLetters, c) > 0 THEN LowerLetters[IndexOf(UpperLetters, c)] ELSE c]

\* String.prototype.toLowerCase, one code unit.
toLowerChar(c) == LowerCaseOf[c]

\* String.prototype.toLowerCase
toLowerCase(s) == [i \in 1..Len(s) |-> toLowerChar(s[i])]

\* String.prototype.includes: sub occurs in s as a contiguous run.
includes(s, sub) ==
  \E i \in 0..(Len(s) - Len(sub)) :
     \A j \in 1..Len(sub) : s[i + j] = sub[j]

\* The separator of path segments, ' > '.
Separator == <<" ", ">", " ">>

RECURSIVE join(_, _)
\* Array.prototype.join
join(parts, sep) ==
  IF Len(parts) = 0 THEN <<>>
  ELSE IF Len(parts) = 1 THEN parts[1]
  ELSE parts[1] \o sep \o join(Tail(parts), sep)

\* Whether sep occurs in s at offset i (0-based).
OccursAt(s, sep, i) ==
  /\ i + Len(sep) <= Len(s)
  /\ \A j \in 1..Len(sep) : s[i + j] = sep[j]

RECURSIVE split(_, _)
\* String.prototype.split with a non-empty separator: leftmost occurrences,
\* non-overlapping.
split(s, sep) ==
  IF \E i \in 0..(Len(s) - Len(sep)) : OccursAt(s, sep, i)
  THEN LET i == CHOOSE k \in 0..(Len(s) - Len(sep)) :
                   /\ OccursAt(s, sep, k)
                   /\ \A m \in 0..(k - 1) : ~OccursAt(s, sep, m)
       IN <<SubSeq(s, 1, i)>> \o split(SubSeq(s, i + Len(sep) + 1, Len(s)), sep)
  ELSE <<s>>

\* Collation order of the code units (CLDR root order: white space, then
\* punctuation, then symbols, then Latin letters, then Hangul).
CollationOrder == <<" ", "/", ">">> \o LowerLetters \o HangulSyllables

\* Primary collation weights: the letter, case ignored.
PrimaryWeights == [c \in CodeUnits |-> IndexOf(CollationOrder, toLowerChar(c))]

PrimaryWeight(c) == PrimaryWeights[c]

\* Tertiary collation weights: lower case before upper case.
TertiaryWeights == [c \in CodeUnits |-> IF IndexOf(UpperLetters, c) > 0 THEN 1 ELSE 0]

TertiaryWeight(c) == TertiaryWeights[c]

RECURSIVE lexCompare(_, _)
\* Lexicographic comparison of two weight sequences: -1, 0 or 1.
lexCompare(u, v) ==
  IF Len(u) = 0 /\ Len(v) = 0 THEN 0
  ELSE IF Len(u) = 0 THEN -1
  ELSE IF Len(v) = 0 THEN 1
  ELSE IF u[1] < v[1] THEN -1
  ELSE IF u[1] > v[1] THEN 1
  ELSE lexCompare(Tail(u), Tail(v))

\* String.prototype.localeCompare: primary weights of the whole strings
\* first, case only when those are equal.
localeCompare(a, b) ==
  LET p == lexCompare([i \in 1..Len(a) |-> PrimaryWeight(a[i])],
                      [i \in 1..Len(b) |-> PrimaryWeight(b[i])])
  IN IF p # 0 THEN p
     ELSE lexCompare([i \in 1..Len(a) |-> TertiaryWeight(a[i])],
                     [i \in 1..Len(b) |-> TertiaryWeight(b[i])])

-----------------------------------------------------------------------------
(* The category dataset.                                                   *)
(*                                                                         *)
(* A JavaScript object used as a mapping is the sequence of its entries    *)
(* [key, node] in insertion order (the order of Object.entries).  A        *)
(* CategoryNode is a record that may or may not have the fields            *)
(* "categories" (a sequence of leaves) and "children" (a mapping).  A      *)
(* CategoryInfo leaf is [cid, name, mall].  An object made by the search   *)
(* carries ref, the stored leaf it is (NewObject when it is an object of   *)
(* its own).                                                               *)

\* The identity of an object that an object literal creates: no stored leaf.
NewObject == [path |-> <<>>, index |-> 0]

\* The identity of the stored leaf at position index of the categories of
\* the node reached by path.
StoredObject(path, index) == [path |-> path, index |-> index]

\* Line 54 without the two toLowerCase: a match that minds the case.
isMatchCaseSensitive(category, searchTerm) ==
  includes(category.name, searchTerm)

\* Line 54 guarded by the term (`searchTerm && ...`): an empty term matches
\* nothing.
isMatchNonEmptyTerm(category, searchTerm) ==
  /\ Len(searchTerm) > 0
  /\ includes(toLowerCase(category.name), toLowerCase(searchTerm))

\* Line 54: the match predicate.
isMatch(category, searchTerm) ==
  includes(toLowerCase(category.name), toLowerCase(searchTerm))

\* Line 58: the template literal `${path.join(' > ')} > ${category.name}`.
fullPathOf(path, category) ==
  join(path, Separator) \o Separator \o category.name

\* Lines 55-60: the object pushed on results, a copy of the leaf (spread)
\* with level and fullPath added.
pushedResult(category, path, index, currentLevel) ==
  [cid      |-> category.cid,
   mall     |-> category.mall,
   level    |-> currentLevel,
   fullPath |-> fullPathOf(path, category),
   name     |-> category.name,
   ref      |-> NewObject]

\* Lines 55-60 writing the path into the leaf itself
\* (`category.name = fullPath`) instead of into a copy.
storedAfterPushRenamed(category, path, index, currentLevel) ==
  [category EXCEPT !.name = fullPathOf(path, category)]

\* Lines 55-60 with Object.assign(category, {level, fullPath}) instead of
\* the spread: the stored leaf gets the two fields.
storedAfterPushAssigned(category, path, index, currentLevel) ==
  category @@ [level |-> currentLevel, fullPath |-> fullPathOf(path, category)]

\* Lines 55-60: the stored leaf after the push; the spread copies, so the
\* stored leaf is as it was.
storedAfterPush(category, path, index, currentLevel) == category

\* `if (node.categories)`, `if (node.children)`: an absent key is skipped.
Has(node, field) == field \in DOMAIN node

RECURSIVE Flatten(_)
\* Concatenation of a sequence of sequences.
Flatten(ss) == IF Len(ss) = 0 THEN <<>> ELSE Head(ss) \o Flatten(Tail(ss))

\* Lines 52-63: the loop over a node's own categories.  results are the
\* objects pushed, in order; categories is the stored list afterwards.
categoriesLoop(categories, path, currentLevel, searchTerm) ==
  [results |->
     Flatten([i \in 1..Len(categories) |->
        IF isMatch(categories[i], searchTerm)
        THEN <<pushedResult(categories[i], path, i, currentLevel)>>
        ELSE <<>>]),
   categories |->
     [i \in 1..Len(categories) |->
        IF isMatch(categories[i], searchTerm)
        THEN storedAfterPush(categories[i], path, i, currentLevel)
        ELSE categories[i]]]

RECURSIVE traverse(_, _, _, _)
RECURSIVE childrenLoop(_, _, _, _)

\* Lines 50-71: traverse(node, path, currentLevel).  results are the objects
\* pushed during the visit of node and its descendants; node is the stored
\* node afterwards.
traverse(node, path, currentLevel, searchTerm) ==
  LET own  == IF Has(node, "categories")
              THEN categoriesLoop(node.categories, path, currentLevel, searchTerm)
              ELSE [results |-> <<>>, categories |-> <<>>]
      kids == IF Has(node, "children")
              THEN childrenLoop(node.children, path, currentLevel, searchTerm)
              ELSE [results |-> <<>>, entries |-> <<>>]
  IN [results |-> own.results \o kids.results,
      node    |-> [f \in DOMAIN node |->
                     IF f = "categories" THEN own.categories
                     ELSE IF f = "children" THEN kids.entries
                     ELSE node[f]]]

\* Lines 66-70: the loop over Object.entries(node.children).
childrenLoop(entries, path, currentLevel, searchTerm) ==
  IF Len(entries) = 0 THEN [results |-> <<>>, entries |-> <<>>]
  ELSE LET first == traverse(entries[1].node, Append(path, entries[1].key),
                             currentLevel + 1, searchTerm)
           rest  == childrenLoop(Tail(entries), path, currentLevel, searchTerm)
       IN [results |-> first.results \o rest.results,
           entries |-> <<[key |-> entries[1].key, node |-> first.node]>>
                       \o rest.entries]

RECURSIVE rootsLoop(_, _)
\* Lines 73-75: the loop over Object.entries(data), each root at level 1
\* with path [rootName].
rootsLoop(entries, searchTerm) ==
  IF Len(entries) = 0 THEN [results |-> <<>>, entries |-> <<>>]
  ELSE LET first == traverse(entries[1].node, <<entries[1].key>>, 1, searchTerm)
           rest  == rootsLoop(Tail(entries), searchTerm)
       IN [results |-> first.results \o rest.results,
           entries |-> <<[key |-> entries[1].key, node |-> first.node]>>
                       \o rest.entries]

\* Lines 78-83 with the levels the other way round (b.level - a.level).
compareResultsDeepestFirst(a, b) ==
  IF a.level # b.level THEN b.level - a.level
  ELSE localeCompare(a.name, b.name)

\* Lines 78-83 comparing the full paths instead of the short names.
compareResultsByFullPath(a, b) ==
  IF a.level # b.level THEN a.level - b.level
  ELSE localeCompare(a.fullPath, b.fullPath)

\* Lines 78-83: the comparator handed to sort.
compareResults(a, b) ==
  IF a.level # b.level THEN a.level - b.level
  ELSE localeCompare(a.name, b.name)

RECURSIVE insertSorted(_, _)
\* x placed before the first element that compares greater than it.
insertSorted(sorted, x) ==
  IF Len(sorted) = 0 THEN <<x>>
  ELSE IF compareResults(x, Head(sorted)) < 0 THEN <<x>> \o sorted
  ELSE <<Head(sorted)>> \o insertSorted(Tail(sorted), x)

RECURSIVE sortResults(_)
\* Line 78: Array.prototype.sort, which is stable.
sortResults(results) ==
  IF Len(results) = 0 THEN <<>>
  ELSE insertSorted(sortResults(SubSeq(results, 1, Len(results) - 1)),
                    results[Len(results)])

\* Lines 86-90: the object returned for one result, its name the full path.
toCategoryInfo(result) ==
  [cid |-> result.cid, name |-> result.fullPath, mall |-> result.mall,
   ref |-> NewObject]

\* Whether some leaf reached by the traversal has no name: reading
\* category.name.toLowerCase() (line 54) then throws a TypeError.
RECURSIVE someLeafLacksName(_)
someLeafLacksName(entries) ==
  \E e \in 1..Len(entries) :
     LET node == entries[e].node
     IN \/ /\ Has(node, "categories")
           /\ \E i \in 1..Len(node.categories) : ~Has(node.categories[i], "name")
        \/ /\ Has(node, "children")
           /\ someLeafLacksName(node.children)

\* Lines 47-91: one call of searchCategories.  returned is the value it
\* returns, ranked the sorted results it was mapped from (level and short
\* name still attached), data the dataset when it returns, threw whether
\* it ended in an exception instead of returning.
searchCategoriesCall(searchTerm, data) ==
  IF someLeafLacksName(data)
  THEN [returned |-> <<>>, ranked |-> <<>>, data |-> data, threw |-> TRUE]
  ELSE LET walk   == rootsLoop(data, searchTerm)
           ranked == sortResults(walk.results)
       IN [returned |-> [i \in 1..Len(ranked) |-> toCategoryInfo(ranked[i])],
           ranked   |-> ranked,
           data     |-> walk.entries,
           threw    |-> FALSE]

\* Lines 47-91: the value searchCategories returns.
searchCategories(searchTerm, data) == searchCategoriesCall(searchTerm, data).returned

\* Line 102: `${category.name}`, which is "undefined" for a leaf without
\* name.
nameInTemplate(category) ==
  IF Has(category, "name") THEN category.name
  ELSE <<"u","n","d","e","f","i","n","e","d">>

\* Lines 100-103: the object getAllCategories pushes, a copy of the leaf
\* (spread) with the path as its name.
enumeratedResult(category, path, index) ==
  [cid  |-> category.cid,
   mall |-> category.mall,
   name |-> join(path, Separator) \o Separator \o nameInTemplate(category),
   ref  |-> NewObject]

\* Lines 100-103: the stored leaf after that push, as it was.
storedAfterEnumeration(category, path, index) == category

RECURSIVE enumerate(_, _)
RECURSIVE enumerateChildren(_, _)

\* Lines 97-112 with the two blocks in the other order: the children are
\* visited before the node's own categories are pushed.
enumerateChildrenFirst(node, path) ==
  LET kids == IF Has(node, "children")
              THEN enumerateChildren(node.children, path)
              ELSE [results |-> <<>>, entries |-> <<>>]
  IN [results |->
        kids.results \o
        (IF Has(node, "categories")
         THEN [i \in 1..Len(node.categories) |->
                 enumeratedResult(node.categories[i], path, i)]
         ELSE <<>>),
      node |-> [f \in DOMAIN node |->
                  IF f = "children" THEN kids.entries ELSE node[f]]]

\* Lines 97-112: getAllCategories' traverse(node, path): the objects pushed
\* and the stored node afterwards.
enumerate(node, path) ==
  LET kids == IF Has(node, "children")
              THEN enumerateChildren(node.children, path)
              ELSE [results |-> <<>>, entries |-> <<>>]
  IN [results |->
        (IF Has(node, "categories")
         THEN [i \in 1..Len(node.categories) |->
                 enumeratedResult(node.categories[i], path, i)]
         ELSE <<>>) \o kids.results,
      node |-> [f \in DOMAIN node |->
                  IF f = "categories"
                  THEN [i \in 1..Len(node.categories) |->
                          storedAfterEnumeration(node.categories[i], path, i)]
                  ELSE IF f = "children" THEN kids.entries
                  ELSE node[f]]]

\* Lines 107-111 and, with the path empty, lines 114-116: the loop over the
\* entries of a mapping.
enumerateChildren(entries, path) ==
  IF Len(entries) = 0 THEN [results |-> <<>>, entries |-> <<>>]
  ELSE LET first == enumerate(entries[1].node, Append(path, entries[1].key))
           rest  == enumerateChildren(Tail(entries), path)
       IN [results |-> first.results \o rest.results,
           entries |-> <<[key |-> entries[1].key, node |-> first.node]>>
                       \o rest.entries]

\* Lines 94-119: one call of getAllCategories: the value it returns and the
\* dataset when it returns.
getAllCategoriesCall(data) ==
  LET walk == enumerateChildren(data, <<>>)
  IN [returned |-> walk.results, data |-> walk.entries]

\* Lines 94-119: the value getAllCategories returns.
getAllCategories(data) == getAllCategoriesCall(data).returned

\* slice(0, end + 1): one element too many.
sliceInclusive(s, end) == SubSeq(s, 1, IF end + 1 < Len(s) THEN end + 1 ELSE Len(s))

\* Array.prototype.slice(0, end) for end >= 0.
slice(s, end) == SubSeq(s, 1, IF end < Len(s) THEN end ELSE Len(s))

-----------------------------------------------------------------------------
(* The category tools *)

\* Line 699, line 794: the level a handler recomputes from a returned name.
levelOfName(name) == Len(split(name, Separator)) - 1

\* Line 796: cat.name.split(' > ').pop()
categoryNameOf(name) == split(name, Separator)[Len(split(name, Separator))]

\* Lines 697-704, 709: the returned categories grouped by recomputed level,
\* the groups by ascending level, each in the order of categories.
levelGroupsOf(categories) ==
  LET levels == {levelOfName(categories[i].name) : i \in 1..Len(categories)}
      group(l) == Flatten([i \in 1..Len(categories) |->
                     IF levelOfName(categories[i].name) = l
                     THEN <<categories[i]>> ELSE <<>>])
      RECURSIVE ascending(_)
      ascending(ls) ==
        IF ls = {} THEN <<>>
        ELSE LET l == CHOOSE x \in ls : \A y \in ls : x <= y
             IN <<[level |-> l, categories |-> group(l)]>> \o ascending(ls \ {l})
  IN ascending(levels)

\* Line 706: the counts in the first line of the result text: how many
\* categories are shown and, when there are more than maxResults, of how
\* many and the top how many (`, 총 N개 중 상위 M개 표시`).
resultHeader(allCategories, categories, maxResults) ==
  [shown   |-> Len(categories),
   ofTotal |-> IF Len(allCategories) > maxResults
               THEN <<Len(allCategories), maxResults>>
               ELSE <<>>]

\* A text without that line.
NoHeader == [shown |-> 0, ofTotal |-> <<>>]

\* Lines 687-694 with isError set on the 'not found' answer.
searchCategoriesResponseNotFoundIsError(searchTerm, maxResults, call) ==
  [tool |-> "search_categories", searchTerm |-> searchTerm,
   maxResults |-> maxResults,
   isError |-> call.threw \/ Len(call.returned) = 0,
   text |-> IF call.threw THEN "error"
            ELSE IF Len(call.returned) = 0 THEN "not_found" ELSE "results",
   allCategories |-> call.returned,
   categories |-> slice(call.returned, maxResults),
   levelGroups |-> levelGroupsOf(slice(call.returned, maxResults)),
   header |-> resultHeader(call.returned, slice(call.returned, maxResults),
                           maxResults)]

\* Lines 682-735: the response of the search_categories handler, given the
\* call of searchCategories it made.
searchCategoriesResponse(searchTerm, maxResults, call) ==
  LET categories == slice(call.returned, maxResults)
  IN IF call.threw
     THEN [tool |-> "search_categories", searchTerm |-> searchTerm,
           maxResults |-> maxResults, isError |-> TRUE, text |-> "error",
           allCategories |-> <<>>, categories |-> <<>>, levelGroups |-> <<>>,
           header |-> NoHeader]
     ELSE IF Len(categories) = 0
     THEN [tool |-> "search_categories", searchTerm |-> searchTerm,
           maxResults |-> maxResults, isError |-> FALSE, text |-> "not_found",
           allCategories |-> call.returned, categories |-> categories,
           levelGroups |-> <<>>, header |-> NoHeader]
     ELSE [tool |-> "search_categories", searchTerm |-> searchTerm,
           maxResults |-> maxResults, isError |-> FALSE, text |-> "results",
           allCategories |-> call.returned, categories |-> categories,
           levelGroups |-> levelGroupsOf(categories),
           header |-> resultHeader(call.returned, categories, maxResults)]

\* Lines 751-772: the curated topics.
popularCategories ==
  <<[name |-> <<"h_so", "h_seol">>, searchTerm |-> <<"h_so", "h_seol">>],
    [name |-> <<"h_e", "h_se", "h_i">>, searchTerm |-> <<"h_e", "h_se", "h_i">>],
    [name |-> <<"h_ja", "h_gi", "h_gye", "h_bal">>, searchTerm |-> <<"h_ja", "h_gi", "h_gye", "h_bal">>],
    [name |-> <<"h_gyeong", "h_je", "h_gyeong", "h_yeong">>, searchTerm |-> <<"h_gyeong", "h_je", "h_gyeong", "h_yeong">>],
    [name |-> <<"h_si", "/", "h_e", "h_se", "h_i">>, searchTerm |-> <<"h_si">>],
    [name |-> <<"h_in", "h_mun", "h_hag">>, searchTerm |-> <<"h_in", "h_mun", "h_hag">>],
    [name |-> <<"h_yeog", "h_sa">>, searchTerm |-> <<"h_yeog", "h_sa">>],
    [name |-> <<"h_cheol", "h_hag">>, searchTerm |-> <<"h_cheol", "h_hag">>],
    [name |-> <<"h_gwa", "h_hag">>, searchTerm |-> <<"h_gwa", "h_hag">>],
    [name |-> <<"h_geon", "h_gang">>, searchTerm |-> <<"h_geon", "h_gang">>],
    [name |-> <<"h_yo", "h_ri">>, searchTerm |-> <<"h_yo", "h_ri">>],
    [name |-> <<"h_yug", "h_a">>, searchTerm |-> <<"h_yug", "h_a">>],
    [name |-> <<"h_gyo", "h_yug">>, searchTerm |-> <<"h_gyo", "h_yug">>],
    [name |-> <<"h_keom", "h_pyu", "h_teo">>, searchTerm |-> <<"h_keom", "h_pyu", "h_teo">>],
    [name |-> <<"h_oe", "h_gug", "h_eo">>, searchTerm |-> <<"h_oe", "h_gug", "h_eo">>],
    [name |-> <<"h_yeo", "h_haeng">>, searchTerm |-> <<"h_yeo", "h_haeng">>],
    [name |-> <<"h_ye", "h_sul">>, searchTerm |-> <<"h_ye", "h_sul">>],
    [name |-> <<"h_jong", "h_gyo">>, searchTerm |-> <<"h_jong", "h_gyo">>],
    [name |-> <<"h_man", "h_hwa">>, searchTerm |-> <<"h_man", "h_hwa">>],
    [name |-> <<"h_a", "h_dong">>, searchTerm |-> <<"h_a", "h_dong">>]>>

\* Line 780: how many categories a topic keeps.
TopCount == 3

\* Line 780 with slice(-3): the last three instead of the first.
lastCategoriesOf(categories) ==
  SubSeq(categories,
         IF Len(categories) > TopCount THEN Len(categories) - TopCount + 1 ELSE 1,
         Len(categories))

\* Line 780: categories.slice(0, 3)
topCategoriesOf(categories) == slice(categories, TopCount)

\* Whether a search for the topic's term finds anything now.
topicIsFound(topic) == Len(searchCategories(topic.searchTerm, categoryData)) > 0

\* Line 776 with the cap after the omission: the first limit topics that
\* have a match, as if the loop ran over the whole list and the results
\* were sliced.
topicsForFound(limit) == slice(SelectSeq(popularCategories, topicIsFound), limit)

\* Line 776: popularCategories.slice(0, limit)
topicsFor(limit) == slice(popularCategories, limit)

RECURSIVE popularLoop(_, _)
\* Lines 776-787: the loop over the topics.  results are the entries
\* pushed, data the dataset after the searches, threw whether a search
\* threw.
popularLoop(topics, data) ==
  IF Len(topics) = 0 THEN [results |-> <<>>, data |-> data, threw |-> FALSE]
  ELSE LET call == searchCategoriesCall(topics[1].searchTerm, data)
       IN IF call.threw
          THEN [results |-> <<>>, data |-> call.data, threw |-> TRUE]
          ELSE LET rest == popularLoop(Tail(topics), call.data)
               IN [results |->
                     (IF Len(call.returned) > 0
                      THEN <<[name |-> topics[1].name,
                              categories |-> topCategoriesOf(call.returned)]>>
                      ELSE <<>>) \o rest.results,
                   data  |-> rest.data,
                   threw |-> rest.threw]

\* Lines 791-800: what the text shows of one topic's categories: the
\* recomputed level (which picks the icon), the last path segment, the cid.
shownCategories(categories) ==
  [i \in 1..Len(categories) |->
     [level        |-> levelOfName(categories[i].name),
      categoryName |-> categoryNameOf(categories[i].name),
      cid          |-> categories[i].cid]]

\* Lines 748-818: the response of the get_popular_categories handler, given
\* the run of its loop.
popularCategoriesResponse(limit, run) ==
  IF run.threw
  THEN [tool |-> "get_popular_categories", limit |-> limit, isError |-> TRUE,
        text |-> "error", results |-> <<>>, shown |-> <<>>]
  ELSE [tool |-> "get_popular_categories", limit |-> limit, isError |-> FALSE,
        text |-> "results", results |-> run.results,
        shown |-> [i \in 1..Len(run.results) |->
                     shownCategories(run.results[i].categories)]]

-----------------------------------------------------------------------------
(* Datasets: what aladin_book_categories.json may hold.  Every leaf has    *)
(* the three string fields of CategoryInfo (lines 33-37); cid and mall are *)
(* opaque, and cids are unique within a dataset.  A name may be empty.     *)

Leaf(cid, name) == [cid |-> cid, name |-> name, mall |-> "Book"]

Fiction == <<"F","i","c","t","i","o","n">>
HistoricalFiction ==
  <<"H","i","s","t","o","r","i","c","a","l"," ","F","i","c","t","i","o","n">>
Soseol == <<"h_so", "h_seol">>
YeogsaSoseol == <<"h_yeog", "h_sa", "h_so", "h_seol">>
Si == <<"h_si">>

\* Lit { Fiction; Novel { Historical Fiction } }
SampleForest ==
  <<[key  |-> <<"L","i","t">>,
     node |-> [categories |-> <<Leaf("1", Fiction)>>,
               children   |-> <<[key  |-> <<"N","o","v","e","l">>,
                                 node |-> [categories |->
                                             <<Leaf("2", HistoricalFiction)>>]]>>]]>>

\* Three levels; leaves of one level under different parents; a leaf with
\* an empty name; nodes with an empty list, with no list and with no key
\* at all.
DeepForest ==
  <<[key  |-> <<"X">>,
     node |-> [name |-> "X", level |-> 1,
               children |->
                 <<[key  |-> <<"P">>,
                    node |-> [categories |-> <<Leaf("p1", <<"z","a">>)>>,
                              children |->
                                <<[key  |-> <<"Q">>,
                                   node |-> [categories |->
                                               <<Leaf("q1", <<"a">>),
                                                 Leaf("q2", <<>>)>>]]>>]],
                   [key  |-> <<"R">>,
                    node |-> [categories |-> <<Leaf("r1", <<"B","a">>),
                                               Leaf("r2", <<"a","b">>)>>,
                              children   |-> <<>>]]>>]],
    [key  |-> <<"Y">>,
     node |-> [name |-> "Y", level |-> 1]],
    [key  |-> <<"W">>,
     node |-> [categories |-> <<>>]]>>

\* A leaf name and a child key that contain ' > '.
SeparatorForest ==
  <<[key  |-> <<"L">>,
     node |-> [categories |-> <<Leaf("1", <<"a"," ",">"," ","b">>)>>,
               children   |-> <<[key  |-> <<"c"," ",">"," ","d">>,
                                 node |-> [categories |->
                                             <<Leaf("2", <<"a">>)>>]]>>]]>>

\* Topics 1, 5 and 7 of the curated list, topic 1 with more than three
\* matches over three levels.
TopicForest ==
  <<[key  |-> <<"h_gug", "h_eo">>,
     node |-> [children |->
                 <<[key  |-> Soseol,
                    node |-> [categories |-> <<Leaf("s3", YeogsaSoseol),
                                               Leaf("s2", Soseol)>>,
                              children |->
                                <<[key  |-> Si,
                                   node |-> [categories |->
                                               <<Leaf("s5", Soseol)>>]]>>]]>>,
               categories |-> <<Leaf("s1", <<"h_si", "/", "h_so", "h_seol">>),
                                Leaf("s4", <<"h_yeog", "h_sa">>)>>]]>>

\* The datasets written out in full.
Fixtures == {SampleForest, DeepForest, SeparatorForest, TopicForest}

\* The leaf names the generated datasets draw from.
NamePool == {<<"A","b">>, Soseol, Si}

\* How many leaves a generated dataset holds at most.
MaxLeaves == 3

\* The sequences over S of length at most n.
SeqsUpTo(S, n) == UNION {[1..k -> S] : k \in 0..n}

\* The cids of the leaves of a generated node, by position.
CidsOf(prefix) ==
  IF prefix = "k" THEN <<"k1", "k2", "k3", "k4", "k5", "k6">>
  ELSE <<"b1", "b2", "b3", "b4", "b5", "b6">>

\* The leaves named names, their cids made of prefix and position.
LeavesOf(prefix, names) ==
  [i \in 1..Len(names) |-> Leaf(CidsOf(prefix)[i], names[i])]

\* A { K { deeper } }, B { shallower }: the leaves of level 2 come before
\* those of level 1 in traversal order.
TwoRootForest(deeper, shallower) ==
  <<[key  |-> <<"A">>,
     node |-> [children |-> <<[key  |-> <<"K">>,
                               node |-> [categories |-> LeavesOf("k", deeper)]]>>]],
    [key  |-> <<"B">>,
     node |-> [categories |-> LeavesOf("b", shallower)]]>>

\* The generated datasets.
Generated ==
  {TwoRootForest(ds[1], ds[2]) :
     ds \in {x \in SeqsUpTo(NamePool, MaxLeaves) \X SeqsUpTo(NamePool, MaxLeaves) :
               Len(x[1]) + Len(x[2]) <= MaxLeaves}}

Datasets == Fixtures \cup Generated

\* A leaf as the file holds it when its "name" key is not there.
WithoutName(leaf) == [f \in DOMAIN leaf \ {"name"} |-> leaf[f]]

RECURSIVE dropNames(_, _)
\* The mapping entries with the "name" key taken from the leaves whose cid
\* is in cids.
dropNames(entries, cids) ==
  [e \in 1..Len(entries) |->
     [key  |-> entries[e].key,
      node |-> [f \in DOMAIN entries[e].node |->
                  IF f = "categories"
                  THEN [i \in 1..Len(entries[e].node.categories) |->
                          IF entries[e].node.categories[i].cid \in cids
                          THEN WithoutName(entries[e].node.categories[i])
                          ELSE entries[e].node.categories[i]]
                  ELSE IF f = "children"
                  THEN dropNames(entries[e].node.children, cids)
                  ELSE entries[e].node[f]]]]

\* Files that JSON.parse accepts and whose leaves may lack a name: the
\* sample forest and the three-level forest, as they are and with the name
\* of some leaves missing.
LooseForests ==
  {dropNames(SampleForest, cids) : cids \in SUBSET {"1", "2"}}
    \cup {dropNames(DeepForest, cids) : cids \in {{}, {"q2"}, {"r1"}}}

\* The search terms tried.
SearchTerms ==
  {<<>>, <<"a">>, <<"B">>, <<"z","z","z">>, Soseol,
   <<"f","i","c","t","i","o","n">>}

\* Line 679: maxResults is between 1 and 50 and 20 when not given.
MaxResultsDefault == 20

\* The largest maxResults tried besides the default.
MaxResultsTried == 2

MaxResultsValues == (1..MaxResultsTried) \cup {MaxResultsDefault}

\* Line 745: limit is at most 50.
LimitMax == 50

\* The largest limit tried besides LimitMax.
MaxLimitTried == 5

LimitValues == (1..MaxLimitTried) \cup {LimitMax}

\* What the environment variable ALADIN_TTB_KEY may hold: not set, empty,
\* white space only, a key.
EnvValues ==
  {[defined |-> FALSE],
   [defined |-> TRUE, value |-> <<>>],
   [defined |-> TRUE, value |-> <<" ", " ">>],
   [defined |-> TRUE, value |-> <<" ", "k", "e", "y">>]}

RECURSIVE trimStart(_)
\* String.prototype.trimStart on the code units of the model.
trimStart(s) ==
  IF Len(s) > 0 /\ Head(s) = " " THEN trimStart(Tail(s)) ELSE s

RECURSIVE trimEnd(_)
\* String.prototype.trimEnd
trimEnd(s) ==
  IF Len(s) > 0 /\ s[Len(s)] = " " THEN trimEnd(SubSeq(s, 1, Len(s) - 1)) ELSE s

\* Line 25 without the trim: process.env.ALADIN_TTB_KEY
ttbKeyOfUntrimmed(env) == env

\* Line 25: process.env.ALADIN_TTB_KEY?.trim()
ttbKeyOf(env) ==
  IF env.defined THEN [defined |-> TRUE, value |-> trimEnd(trimStart(env.value))]
  ELSE [defined |-> FALSE]

\* Line 148: !ALADIN_TTB_KEY || ALADIN_TTB_KEY.length === 0
keyMissing(key) == ~key.defined \/ Len(key.value) = 0

\* The tools that call the remote API, lines 177-669.
RemoteTools ==
  {"search_books", "get_book_detail", "get_bestsellers", "get_new_books",
   "get_special_new_books", "get_editor_choice", "get_blogger_best"}

\* Lines 177-819: the names registerTool is called with, in the order of
\* the calls.
RegisteredOrder ==
  <<"search_books", "get_book_detail", "get_bestsellers", "get_new_books",
    "get_special_new_books", "get_editor_choice", "get_blogger_best",
    "search_categories", "get_popular_categories">>

\* The tools registered once the module is evaluated.
RegisteredTools == {RegisteredOrder[i] : i \in 1..Len(RegisteredOrder)}

\* The argument a remote tool checks before it calls the API: the query of
\* search_books, the isbn of get_book_detail; the other tools check none.
RemoteArgs(tool) ==
  IF tool = "search_books" THEN {<<>>, <<"q">>}
  ELSE IF tool = "get_book_detail" THEN {<<>>, <<"i">>}
  ELSE {<<>>}

\* One invocation of a remote tool.
Invocation(tool, arg) == [tool |-> tool, arg |-> arg]

\* Every invocation of a remote tool the model makes.
Invocations ==
  UNION {{Invocation(tool, arg) : arg \in RemoteArgs(tool)} : tool \in RemoteTools}

\* Lines 191, 256: `if (!query)`, `if (!isbn)`.
argRejected(tool, arg) ==
  tool \in {"search_books", "get_book_detail"} /\ Len(arg) = 0

\* How the HTTP request of callAladinApi ends: axios rejects (lines
\* 164-167 log and rethrow), or it resolves with a body that is null, that
\* has no item (an empty list, or the API's error object) or that has one.
HttpOutcomes == {"rejected", "null_body", "no_item", "one_item"}

\* No HTTP request was made.
NoRequest == "none"

\* Lines 231-240 with the error thrown again after it is logged, as
\* callAladinApi does (line 166): the handler ends without a result.
errorResultRethrown(tool, arg, http) ==
  [tool |-> tool, arg |-> arg, http |-> http, isError |-> FALSE,
   text |-> "exception"]

\* Lines 231-240 and alike: what the catch block of a remote tool returns.
errorResult(tool, arg, http) ==
  [tool |-> tool, arg |-> arg, http |-> http, isError |-> TRUE,
   text |-> "error"]

\* Lines 225-230 and alike: what the try block returns.
successResult(tool, arg, http) ==
  [tool |-> tool, arg |-> arg, http |-> http, isError |-> FALSE,
   text |-> "results"]

\* Whether the try block throws after its await: the request was rejected;
\* `result.item` is read of null (lines 206, 269); get_book_detail finds no
\* item (lines 269-272).  The list tools take a missing item as no books
\* (`result.item?.map(...) || []`).
bodyThrows(tool, http) ==
  \/ http \in {"rejected", "null_body"}
  \/ tool = "get_book_detail" /\ http = "no_item"

\* Lines 204-240 and alike: the response of a remote tool once its request
\* has ended.
remoteResponse(tool, arg, http) ==
  IF bodyThrows(tool, http)
  THEN errorResult(tool, arg, http)
  ELSE successResult(tool, arg, http)

\* How many HTTP requests are in flight at most.
MaxInflight == 1

-----------------------------------------------------------------------------
(* The server *)

NoResponse == [tool |-> "none"]

\* What the file holds when JSON.parse accepts it.
FileOf(data) == [status |-> "ok", data |-> data]

\* The state once the module is evaluated and main() has connected the
\* transport (lines 19-25, 171-819, 824-828), the file holding data and
\* the environment variable e.
Serving(data, e) ==
  /\ file = FileOf(data)
  /\ categoryData = data
  /\ loadedData = data
  /\ envKey = e
  /\ ttbKey = ttbKeyOf(e)
  /\ inflight = {}
  /\ lastResponse = NoResponse
  /\ served = FALSE
  /\ failed = FALSE
  /\ phase = "serving"
  /\ registered = RegisteredTools

\* Line 21: the dataset is parsed once, as the module loads.  The category
\* tools alone, on every dataset.
Init ==
  \E data \in Datasets : Serving(data, [defined |-> FALSE])

\* Lines 682-735: one invocation of search_categories.  The handler has no
\* await: it runs from its first line to its return in one step.
SearchCategoriesTool ==
  /\ phase = "serving"
  /\ "search_categories" \in registered
  /\ lastResponse.tool = "none"
  /\ \E searchTerm \in SearchTerms, maxResults \in MaxResultsValues :
       LET call == searchCategoriesCall(searchTerm, categoryData)
       IN /\ categoryData' = call.data
          /\ lastResponse' = searchCategoriesResponse(searchTerm, maxResults, call)
  /\ UNCHANGED <<loadedData, ttbKey, inflight, served, failed, file, envKey,
                 phase, registered>>

\* Lines 748-818: one invocation of get_popular_categories, in one step too.
GetPopularCategoriesTool ==
  /\ phase = "serving"
  /\ "get_popular_categories" \in registered
  /\ lastResponse.tool = "none"
  /\ \E limit \in LimitValues :
       LET run == popularLoop(topicsFor(limit), categoryData)
       IN /\ categoryData' = run.data
          /\ lastResponse' = popularCategoriesResponse(limit, run)
  /\ UNCHANGED <<loadedData, ttbKey, inflight, served, failed, file, envKey,
                 phase, registered>>

\* Lines 94-119: one call of getAllCategories.  No tool of index.ts calls
\* it; the step is a call by code that uses it as the tools use
\* searchCategories, its result handed back like a tool's.
GetAllCategories ==
  /\ phase = "serving"
  /\ lastResponse.tool = "none"
  /\ LET call == getAllCategoriesCall(categoryData)
     IN /\ categoryData' = call.data
        /\ lastResponse' = [tool |-> "getAllCategories", isError |-> FALSE,
                            text |-> "results", categories |-> call.returned]
  /\ UNCHANGED <<loadedData, ttbKey, inflight, served, failed, file, envKey,
                 phase, registered>>

\* The response goes out on the transport; the client, which awaits each
\* answer, may then send its next request.
SendResponse ==
  /\ lastResponse.tool # "none"
  /\ lastResponse' = NoResponse
  /\ served' = TRUE
  /\ failed' = (failed \/ lastResponse.isError)
  /\ UNCHANGED <<categoryData, loadedData, ttbKey, inflight, file, envKey,
                 phase, registered>>

\* A remote tool's handler up to its await (lines 189-204, 254-267,
\* 330-356, ...) with callAladinApi up to its own (lines 147-162): a
\* rejected argument or a missing key throws into the handler's catch,
\* which returns an error; otherwise the HTTP request is under way.
StartRemoteTool ==
  /\ phase = "serving"
  /\ lastResponse.tool = "none"
  /\ \E tool \in RemoteTools \cap registered :
       \E arg \in RemoteArgs(tool) :
          IF argRejected(tool, arg) \/ keyMissing(ttbKey)
          THEN /\ lastResponse' = errorResult(tool, arg, NoRequest)
               /\ UNCHANGED inflight
          ELSE /\ Cardinality(inflight) < MaxInflight
               /\ \A inv \in inflight : inv.tool # tool
               /\ inflight' = inflight \cup {Invocation(tool, arg)}
               /\ UNCHANGED lastResponse
  /\ UNCHANGED <<categoryData, loadedData, ttbKey, served, failed, file, envKey,
                 phase, registered>>

\* The HTTP request of one waiting invocation ends and its handler runs to
\* its return (lines 163-167, then 206-240 and alike).
FinishOf(inv) ==
  /\ lastResponse.tool = "none"
  /\ inv \in inflight
  /\ \E http \in HttpOutcomes :
       /\ inflight' = inflight \ {inv}
       /\ lastResponse' = remoteResponse(inv.tool, inv.arg, http)
  /\ UNCHANGED <<categoryData, loadedData, ttbKey, served, failed, file, envKey,
                 phase, registered>>

\* The HTTP request of some waiting invocation ends.
FinishRemoteTool == \E inv \in inflight : FinishOf(inv)

Next ==
  \/ SearchCategoriesTool
  \/ GetPopularCategoriesTool
  \/ GetAllCategories
  \/ SendResponse

Spec == Init /\ [][Next]_vars

\* The whole server on the datasets written out in full: the category
\* tools interleaved with the remote tools, under every ALADIN_TTB_KEY.
ServerInit ==
  \E data \in Fixtures, e \in EnvValues : Serving(data, e)

ServerNext ==
  \/ SearchCategoriesTool
  \/ GetPopularCategoriesTool
  \/ GetAllCategories
  \/ StartRemoteTool
  \/ FinishRemoteTool
  \/ SendResponse

ServerSpec == ServerInit /\ [][ServerNext]_vars

\* The whole server on files whose leaves may lack a name.
FaultInit ==
  \E data \in LooseForests, e \in EnvValues : Serving(data, e)

FaultSpec == FaultInit /\ [][ServerNext]_vars

\* The sample forest with a key, and the sample forest with a name missing
\* without a key, under the scheduling of the event loop: a response that waits
\* is sent, and the handler of a request that has ended is resumed even
\* though other handlers run in between.  That every HTTP request ends is
\* assumed of the network: callAladinApi sets no timeout (line 162).
FairFaultInit ==
  \/ Serving(SampleForest, [defined |-> TRUE, value |-> <<" ", "k", "e", "y">>])
  \/ Serving(dropNames(SampleForest, {"1"}), [defined |-> FALSE])

FairFaultSpec ==
  /\ FairFaultInit
  /\ [][ServerNext]_vars
  /\ WF_vars(SendResponse)
  /\ \A inv \in Invocations : SF_vars(FinishOf(inv))

\* What may be on disk at the path of line 20: no file, a file JSON.parse
\* rejects, a file holding a dataset.
FileValues ==
  {[status |-> "missing", data |-> <<>>],
   [status |-> "unparsable", data |-> <<>>]}
    \cup {FileOf(data) : data \in Fixtures}

\* Lines 19-25 with the load in a try whose catch goes on with an empty
\* dataset (`catch { categoryData = {} }`).
LoadDatasetSwallowing ==
  /\ phase = "loading"
  /\ categoryData' = file.data
  /\ loadedData' = file.data
  /\ ttbKey' = ttbKeyOf(envKey)
  /\ phase' = "registering"
  /\ UNCHANGED <<inflight, lastResponse, served, failed, file, envKey,
                 registered>>

\* Lines 19-25: the module reads and parses the file, then reads the key.
\* readFileSync or JSON.parse throwing at the top level of the module ends
\* the process before any later line runs.
LoadDataset ==
  /\ phase = "loading"
  /\ IF file.status = "ok"
     THEN /\ categoryData' = file.data
          /\ loadedData' = file.data
          /\ ttbKey' = ttbKeyOf(envKey)
          /\ phase' = "registering"
     ELSE /\ phase' = "exited"
          /\ UNCHANGED <<categoryData, loadedData, ttbKey>>
  /\ UNCHANGED <<inflight, lastResponse, served, failed, file, envKey,
                 registered>>

\* Lines 177-819: the next call of server.registerTool.
RegisterTool ==
  /\ phase = "registering"
  /\ Cardinality(registered) < Len(RegisteredOrder)
  /\ registered' = registered \cup {RegisteredOrder[Cardinality(registered) + 1]}
  /\ UNCHANGED <<categoryData, loadedData, ttbKey, inflight, lastResponse,
                 served, failed, file, envKey, phase>>

\* Lines 824-827, 836: main() is called after the last registerTool and
\* runs to `await server.connect(transport)`.
StartMain ==
  /\ phase = "registering"
  /\ Cardinality(registered) = Len(RegisteredOrder)
  /\ phase' = "connecting"
  /\ UNCHANGED <<categoryData, loadedData, ttbKey, inflight, lastResponse,
                 served, failed, file, envKey, registered>>

\* Lines 827-832: connect resolves and the server reads requests, or it
\* rejects and the catch of main calls process.exit(1).
Connect ==
  /\ phase = "connecting"
  /\ phase' \in {"serving", "exited"}
  /\ UNCHANGED <<categoryData, loadedData, ttbKey, inflight, lastResponse,
                 served, failed, file, envKey, registered>>

\* The process as node starts it: nothing of the module evaluated yet.
StartupInit ==
  /\ file \in FileValues
  /\ envKey \in EnvValues
  /\ categoryData = <<>>
  /\ loadedData = <<>>
  /\ ttbKey = [defined |-> FALSE]
  /\ inflight = {}
  /\ lastResponse = NoResponse
  /\ served = FALSE
  /\ failed = FALSE
  /\ phase = "loading"
  /\ registered = {}

StartupNext ==
  \/ LoadDataset
  \/ RegisterTool
  \/ StartMain
  \/ Connect
  \/ ServerNext

\* The process from its start.
StartupSpec == StartupInit /\ [][StartupNext]_vars

-----------------------------------------------------------------------------
(* What the properties are stated in: the leaves of the dataset as loaded, *)
(* each with the place it is found at, listed without the search.          *)

RECURSIVE LeafSitesOf(_, _, _)
\* The leaves under the entries of a mapping reached by path at depth
\* level - 1, in depth-first order, a node's own leaves before its
\* children's.
LeafSitesOf(entries, path, level) ==
  IF Len(entries) = 0 THEN <<>>
  ELSE LET node == entries[1].node
           here == Append(path, entries[1].key)
           own  == IF "categories" \in DOMAIN node
                   THEN [i \in 1..Len(node.categories) |->
                           [leaf |-> node.categories[i], level |-> level,
                            path |-> here, index |-> i]]
                   ELSE <<>>
           below == IF "children" \in DOMAIN node
                    THEN LeafSitesOf(node.children, here, level + 1)
                    ELSE <<>>
       IN own \o below \o LeafSitesOf(Tail(entries), path, level)

\* The leaves of the loaded dataset, in encounter order.
Found == LeafSitesOf(loadedData, <<>>, 1)

\* The encounter position of the leaf with this cid (cids are unique in
\* every dataset of the model).
Encounter(cid) == CHOOSE i \in 1..Len(Found) : Found[i].leaf.cid = cid

\* The level and the short name of the leaf with this cid.
LevelOf(cid) == Found[Encounter(cid)].level
ShortNameOf(cid) == Found[Encounter(cid)].leaf.name

\* Two code units that are equal or the two cases of one letter.
SameIgnoringCase(c, d) ==
  \/ c = d
  \/ \E i \in 1..Len(UpperLetters) :
        {c, d} = {UpperLetters[i], LowerLetters[i]}

\* term occurs in name as a contiguous run, case ignored.
ContainsIgnoringCase(name, term) ==
  \E off \in 0..(Len(name) - Len(term)) :
     \A j \in 1..Len(term) : SameIgnoringCase(name[off + j], term[j])

\* The cids of the leaves whose short name contains term.
MatchingCids(term) ==
  {Found[i].leaf.cid : i \in {k \in 1..Len(Found) :
                                ContainsIgnoringCase(Found[k].leaf.name, term)}}

\* A response of search_categories is waiting to be sent.
SearchAnswered == lastResponse.tool = "search_categories"

\* The cid, name and mall of each element of a returned sequence.
Shape(categories) ==
  [i \in 1..Len(categories) |->
     <<categories[i].cid, categories[i].name, categories[i].mall>>]

FictionTerm == <<"f","i","c","t","i","o","n">>

OnSampleForest == Len(loadedData) = 1 /\ loadedData[1].key = <<"L","i","t">>

-----------------------------------------------------------------------------
(* C1..C5: the sequence searchCategories returns *)

\* C1: in the sequence searchCategories returns, a result found at a smaller
\* traversal level comes before every result found at a larger level; on
\* the forest Lit{Fiction; Novel{Historical Fiction}} the term "fiction"
\* returns "Lit > Fiction" and then "Lit > Novel > Historical Fiction".
C1_LevelOrdering ==
  SearchAnswered =>
    LET all == lastResponse.allCategories
    IN /\ \A i, j \in 1..Len(all) :
            LevelOf(all[i].cid) < LevelOf(all[j].cid) => i < j
       /\ (OnSampleForest /\ lastResponse.searchTerm = FictionTerm) =>
            Shape(all) =
              <<<<"1", <<"L","i","t">> \o Separator \o Fiction, "Book">>,
                <<"2", <<"L","i","t">> \o Separator \o <<"N","o","v","e","l">>
                         \o Separator \o HistoricalFiction, "Book">>>>

\* C1's case: a result of a smaller level that the traversal met later than
\* a result of a larger level, returned before it.
C1_Witness ==
  /\ SearchAnswered
  /\ \E i, j \in 1..Len(lastResponse.allCategories) :
        LET a == lastResponse.allCategories[i].cid
            b == lastResponse.allCategories[j].cid
        IN i < j /\ LevelOf(a) < LevelOf(b) /\ Encounter(a) > Encounter(b)

\* C2: results found at the same level are in non-decreasing order of the
\* leaf's short name (localeCompare), and those of equal level and equal
\* short name keep their encounter order.
C2_NameTieBreak ==
  SearchAnswered =>
    LET all == lastResponse.allCategories
    IN \A i, j \in 1..Len(all) :
          (i < j /\ LevelOf(all[i].cid) = LevelOf(all[j].cid)) =>
             LET c == localeCompare(ShortNameOf(all[i].cid), ShortNameOf(all[j].cid))
             IN /\ c <= 0
                /\ c = 0 => Encounter(all[i].cid) < Encounter(all[j].cid)

\* C2's case: of three results of one level, two have the same short name
\* and stay in encounter order, and the third, met before them, follows
\* them.
C2_Witness ==
  /\ SearchAnswered
  /\ \E i, j, k \in 1..Len(lastResponse.allCategories) :
        LET a == lastResponse.allCategories[i].cid
            b == lastResponse.allCategories[j].cid
            c == lastResponse.allCategories[k].cid
        IN /\ i < j /\ j < k
           /\ LevelOf(a) = LevelOf(b) /\ LevelOf(b) = LevelOf(c)
           /\ ShortNameOf(a) = ShortNameOf(b)
           /\ Encounter(c) < Encounter(a) /\ Encounter(a) < Encounter(b)

\* C3: the leaves searchCategories returns are exactly the leaves whose own
\* short name contains the term, case ignored: none that does not, and all
\* that do, at any depth under any root.
C3_ExactlyTheMatches ==
  SearchAnswered =>
    LET all == lastResponse.allCategories
    IN {all[i].cid : i \in 1..Len(all)} = MatchingCids(lastResponse.searchTerm)

\* C3's case: a leaf below the root level is returned whose name has the
\* term in another case, and another leaf is not returned.
C3_Witness ==
  /\ SearchAnswered
  /\ Len(lastResponse.allCategories) < Len(Found)
  /\ \E i \in 1..Len(lastResponse.allCategories) :
        LET cid == lastResponse.allCategories[i].cid
        IN /\ LevelOf(cid) > 1
           /\ ~includes(ShortNameOf(cid), lastResponse.searchTerm)

\* C4: every returned name, split on " > ", has level + 1 segments, the
\* last one the leaf's short name, so that the level a handler recomputes
\* from the name is the traversal level.
C4_PathSegments ==
  SearchAnswered =>
    LET all == lastResponse.allCategories
    IN \A i \in 1..Len(all) :
          LET segments == split(all[i].name, Separator)
          IN /\ Len(segments) = LevelOf(all[i].cid) + 1
             /\ segments[Len(segments)] = ShortNameOf(all[i].cid)
             /\ levelOfName(all[i].name) = LevelOf(all[i].cid)

\* C5: with the empty term searchCategories returns every leaf exactly
\* once, by ascending level and then by short name.
C5_EmptyTermReturnsAll ==
  (SearchAnswered /\ lastResponse.searchTerm = <<>>) =>
    LET all == lastResponse.allCategories
    IN /\ Len(all) = Len(Found)
       /\ {all[i].cid : i \in 1..Len(all)} = {Found[i].leaf.cid : i \in 1..Len(Found)}
       /\ \A i, j \in 1..Len(all) :
             i < j =>
               \/ LevelOf(all[i].cid) < LevelOf(all[j].cid)
               \/ /\ LevelOf(all[i].cid) = LevelOf(all[j].cid)
                  /\ localeCompare(ShortNameOf(all[i].cid), ShortNameOf(all[j].cid)) <= 0

\* C5's case: the empty term on a dataset of at least three leaves over
\* three levels.
C5_Witness ==
  /\ SearchAnswered
  /\ lastResponse.searchTerm = <<>>
  /\ Len(lastResponse.allCategories) >= 3
  /\ \E i \in 1..Len(Found) : Found[i].level = 3

-----------------------------------------------------------------------------
(* C6..C8: the tools' use of the search *)

\* A response of get_popular_categories is waiting to be sent.
PopularAnswered == lastResponse.tool = "get_popular_categories"

\* The entries of a popular response that carry the name of a topic.
EntriesNamed(name) ==
  {r \in 1..Len(lastResponse.results) : lastResponse.results[r].name = name}

\* a ranks no later than b: a smaller level, or the same level and a short
\* name that does not compare greater.
RanksNoLater(a, b) ==
  \/ LevelOf(a) < LevelOf(b)
  \/ /\ LevelOf(a) = LevelOf(b)
     /\ localeCompare(ShortNameOf(a), ShortNameOf(b)) <= 0

\* The topics a limit lets through: the first limit ones of the curated
\* list.
TopicsWithin(limit) ==
  1..(IF limit < Len(popularCategories) THEN limit ELSE Len(popularCategories))

\* C6: a topic with at least 3 matches keeps exactly 3 categories, the first
\* 3 of the ranked output of searchCategories (level ascending, then short
\* name) in that order; a topic with 1 or 2 matches keeps them all.
C6_TopThreePerTopic ==
  PopularAnswered =>
    \A t \in TopicsWithin(lastResponse.limit) :
       LET topic   == popularCategories[t]
           matches == MatchingCids(topic.searchTerm)
           ranked  == searchCategories(topic.searchTerm, loadedData)
       IN matches # {} =>
            /\ Cardinality(EntriesNamed(topic.name)) = 1
            /\ \A r \in EntriesNamed(topic.name) :
                  LET kept     == lastResponse.results[r].categories
                      keptCids == {kept[i].cid : i \in 1..Len(kept)}
                  IN /\ Cardinality(matches) >= 3 => Len(kept) = 3
                     /\ Cardinality(matches) < 3 => Len(kept) = Cardinality(matches)
                     /\ Cardinality(keptCids) = Len(kept)
                     /\ keptCids \subseteq matches
                     /\ Shape(kept) = Shape(SubSeq(ranked, 1, Len(kept)))
                     /\ \A i, j \in 1..Len(kept) :
                           i < j => RanksNoLater(kept[i].cid, kept[j].cid)
                     /\ \A i \in 1..Len(kept) :
                           \A c \in matches \ keptCids : RanksNoLater(kept[i].cid, c)

\* C6's case: one topic with more than 3 matches keeps 3 and leaves one
\* out, another topic with a single match keeps it.
C6_Witness ==
  /\ PopularAnswered
  /\ \E r, q \in 1..Len(lastResponse.results) :
        /\ Len(lastResponse.results[r].categories) = 3
        /\ \E t \in TopicsWithin(lastResponse.limit) :
              /\ popularCategories[t].name = lastResponse.results[r].name
              /\ Cardinality(MatchingCids(popularCategories[t].searchTerm)) > 3
        /\ Len(lastResponse.results[q].categories) = 1

\* Whether a topic has a match in the loaded dataset.
HasMatch(topic) == MatchingCids(topic.searchTerm) # {}

\* C7: the topics output are those of the first limit entries of the
\* 20-entry curated list that have a match, in the list's order; a topic
\* without a match is left out without an error, and the cap by limit comes
\* before that: no later topic takes the place of one left out.
C7_TopicsWithinLimit ==
  PopularAnswered =>
    LET within == SubSeq(popularCategories, 1,
                         IF lastResponse.limit < 20 THEN lastResponse.limit ELSE 20)
        expected == SelectSeq(within, HasMatch)
    IN /\ Len(popularCategories) = 20
       /\ ~lastResponse.isError
       /\ [r \in 1..Len(lastResponse.results) |-> lastResponse.results[r].name]
            = [e \in 1..Len(expected) |-> expected[e].name]

\* C7's case: a topic within the limit is left out, fewer topics than limit
\* are output and a topic beyond the limit has a match.
C7_Witness ==
  /\ PopularAnswered
  /\ Len(lastResponse.results) >= 1
  /\ Len(lastResponse.results) < lastResponse.limit
  /\ \E t \in 1..Len(popularCategories) :
        t > lastResponse.limit /\ HasMatch(popularCategories[t])

\* C8: when no leaf matches the term, searchCategories returns the empty
\* sequence and raises nothing, and search_categories answers with a
\* 'not found' message that is no error.
C8_NoMatchIsNoError ==
  (SearchAnswered /\ MatchingCids(lastResponse.searchTerm) = {}) =>
     /\ lastResponse.allCategories = <<>>
     /\ lastResponse.categories = <<>>
     /\ ~lastResponse.isError
     /\ lastResponse.text = "not_found"

\* C8's case: "zzz" on the forest Lit{Fiction; Novel{Historical Fiction}}.
C8_Witness ==
  /\ SearchAnswered
  /\ OnSampleForest
  /\ lastResponse.searchTerm = <<"z","z","z">>
  /\ lastResponse.text = "not_found"

-----------------------------------------------------------------------------
(* C9, C10: the dataset across invocations *)

\* C9: whatever invocations came before, searchCategories returns for a
\* term the sequence it returns for it on the dataset as loaded.
C9_SameAnswerEveryCall ==
  SearchAnswered =>
    /\ ~lastResponse.isError
    /\ Shape(lastResponse.allCategories)
         = Shape(searchCategories(lastResponse.searchTerm, loadedData))

\* C9's case: a search that returns several results after an earlier
\* invocation has been answered.
C9_Witness ==
  /\ SearchAnswered
  /\ served
  /\ Len(lastResponse.allCategories) >= 2

\* The stored leaves of the loaded dataset.
StoredObjects ==
  {StoredObject(Found[i].path, Found[i].index) : i \in 1..Len(Found)}

\* The objects a waiting response hands to the caller.
HandedOut ==
  IF SearchAnswered
  THEN {lastResponse.allCategories[i].ref : i \in 1..Len(lastResponse.allCategories)}
  ELSE IF PopularAnswered
  THEN UNION {{lastResponse.results[r].categories[i].ref :
                  i \in 1..Len(lastResponse.results[r].categories)} :
               r \in 1..Len(lastResponse.results)}
  ELSE IF lastResponse.tool = "getAllCategories"
  THEN {lastResponse.categories[i].ref : i \in 1..Len(lastResponse.categories)}
  ELSE {}

\* C10: once loaded, the dataset is never written, whatever tool
\* invocations interleave, and the results handed to callers are objects of
\* their own, none of them a stored leaf.
C10_DatasetNeverWritten ==
  /\ categoryData = loadedData
  /\ HandedOut \cap StoredObjects = {}

\* C10's case: a category tool has answered with results while a remote
\* invocation waits for its HTTP request, after an earlier answer.
C10_Witness ==
  /\ inflight # {}
  /\ served
  /\ HandedOut # {}

-----------------------------------------------------------------------------
(* C11: leaves with an empty or a missing name *)

\* Whether a leaf has no name or the empty one.
IsBlankLeaf(leaf) == "name" \notin DOMAIN leaf \/ Len(leaf.name) = 0

RECURSIVE WithoutBlankLeaves(_)
\* The mapping entries with the leaves of empty or missing name taken out.
WithoutBlankLeaves(entries) ==
  [e \in 1..Len(entries) |->
     [key  |-> entries[e].key,
      node |-> [f \in DOMAIN entries[e].node |->
                  IF f = "categories"
                  THEN SelectSeq(entries[e].node.categories,
                                 LAMBDA leaf : ~IsBlankLeaf(leaf))
                  ELSE IF f = "children"
                  THEN WithoutBlankLeaves(entries[e].node.children)
                  ELSE entries[e].node[f]]]]

\* Some leaf of the loaded dataset has no name.
SomeNameMissing ==
  \E i \in 1..Len(Found) : "name" \notin DOMAIN Found[i].leaf

\* Some leaf of the loaded dataset has the empty name.
SomeNameEmpty ==
  \E i \in 1..Len(Found) :
     "name" \in DOMAIN Found[i].leaf /\ Len(Found[i].leaf.name) = 0

\* C11: on a forest with a leaf of empty or missing name, searchCategories
\* with a non-empty term completes normally and returns what it returns on
\* the forest without such leaves.
C11_BlankLeafNeverMatches ==
  (SearchAnswered /\ lastResponse.searchTerm # <<>>) =>
     /\ ~lastResponse.isError
     /\ Shape(lastResponse.allCategories)
          = Shape(searchCategories(lastResponse.searchTerm,
                                   WithoutBlankLeaves(loadedData)))

\* C11 for the empty name alone: where every leaf has a name, a leaf of
\* empty name is left out by every non-empty term.
C11_EmptyNameNeverMatches ==
  (SearchAnswered /\ lastResponse.searchTerm # <<>> /\ ~SomeNameMissing) =>
     /\ ~lastResponse.isError
     /\ Shape(lastResponse.allCategories)
          = Shape(searchCategories(lastResponse.searchTerm,
                                   WithoutBlankLeaves(loadedData)))

-----------------------------------------------------------------------------
(* C12, C13: the cap of the tool and the full enumeration *)

\* C12: search_categories returns the first min(maxResults, number of
\* matches) elements of the sequence searchCategories ranks, in its order;
\* searchCategories itself returns every match; and the text tells the
\* number of matches when there are more than maxResults.
C12_FirstMaxResults ==
  SearchAnswered =>
    LET ranked  == searchCategories(lastResponse.searchTerm, loadedData)
        matches == Cardinality(MatchingCids(lastResponse.searchTerm))
        n       == IF lastResponse.maxResults < matches
                   THEN lastResponse.maxResults ELSE matches
    IN /\ Len(lastResponse.allCategories) = matches
       /\ Len(lastResponse.categories) = n
       /\ Shape(lastResponse.categories) = Shape(SubSeq(ranked, 1, n))
       /\ lastResponse.text = "results" =>
            /\ lastResponse.header.shown = n
            /\ lastResponse.header.ofTotal =
                 IF matches > lastResponse.maxResults
                 THEN <<matches, lastResponse.maxResults>> ELSE <<>>

\* C12's case: more matches than a maxResults of at least 2, the total
\* told in the text.
C12_Witness ==
  /\ SearchAnswered
  /\ lastResponse.maxResults >= 2
  /\ Len(lastResponse.allCategories) > lastResponse.maxResults
  /\ Len(lastResponse.categories) = lastResponse.maxResults
  /\ lastResponse.header.ofTotal # <<>>

\* A response of getAllCategories is waiting to be handed back.
EnumerationAnswered == lastResponse.tool = "getAllCategories"

\* How many elements of a sequence are x.
CountOf(seq, x) == Cardinality({i \in 1..Len(seq) : seq[i] = x})

\* Two sequences with the same elements, each as many times.
IsPermutation(s, t) ==
  /\ Len(s) = Len(t)
  /\ \A i \in 1..Len(s) : CountOf(s, s[i]) = CountOf(t, s[i])

\* C13: getAllCategories returns every leaf once, its name the full path,
\* in depth-first order (a node's own categories in stored order, then its
\* children in mapping order), whatever the levels; the result is a
\* permutation of what searchCategories returns for the empty term.
C13_FullEnumeration ==
  EnumerationAnswered =>
    LET all == lastResponse.categories
    IN /\ Len(all) = Len(Found)
       /\ \A i \in 1..Len(all) :
             /\ all[i].cid = Found[i].leaf.cid
             /\ all[i].mall = Found[i].leaf.mall
             /\ all[i].name = join(Found[i].path, Separator) \o Separator
                                \o Found[i].leaf.name
       /\ IsPermutation(Shape(all), Shape(searchCategories(<<>>, loadedData)))

\* C13's case: an enumeration of at least three leaves where a deeper leaf
\* comes before a shallower one, so that it is not the order of the search,
\* and where a node has leaves of its own and leaves below it.
C13_Witness ==
  /\ EnumerationAnswered
  /\ Len(lastResponse.categories) >= 3
  /\ \E i, j \in 1..Len(Found) : i < j /\ Found[i].level > Found[j].level
  /\ \E i, j \in 1..Len(Found) :
        /\ Found[j].level = Found[i].level + 1
        /\ SubSeq(Found[j].path, 1, Len(Found[i].path)) = Found[i].path
  /\ Shape(lastResponse.categories) # Shape(searchCategories(<<>>, loadedData))

-----------------------------------------------------------------------------
(* C14, C15: the start of the process *)

\* A tool request has been taken up: an invocation waits for its HTTP
\* request, a response waits to be sent or one has been sent.
RequestHandled == inflight # {} \/ lastResponse.tool # "none" \/ served

\* C14: when the dataset file is missing or unparsable the process never
\* connects its transport nor handles a request; the transport is
\* connected, and requests are handled, only with the dataset loaded from
\* the file.
C14_NoServingWithoutDataset ==
  /\ file.status # "ok" =>
       /\ phase \in {"loading", "exited"}
       /\ registered = {}
       /\ ~RequestHandled
  /\ (phase \in {"connecting", "serving"} \/ RequestHandled) =>
       /\ file.status = "ok"
       /\ loadedData = file.data
       /\ categoryData = file.data

\* C14's case: the file is not parsable and the process has ended, nothing
\* registered and no request handled.
C14_Witness ==
  /\ file.status = "unparsable"
  /\ phase = "exited"
  /\ registered = {}
  /\ ~RequestHandled

\* The tools the README documents (sections 1 to 10 of its tools chapter).
DocumentedTools ==
  {"search_books", "get_book_detail", "get_bestsellers", "get_new_books",
   "get_special_new_books", "get_editor_choice", "get_blogger_best",
   "search_categories", "get_popular_categories", "format_books_table"}

\* C15: once the server is connected, every tool the README documents is
\* registered, format_books_table among them.
C15_DocumentedToolsRegistered ==
  phase = "serving" => DocumentedTools \subseteq registered

\* C15 without format_books_table: the other nine documented tools are
\* registered once the server is connected.
C15_OtherNineRegistered ==
  phase = "serving" =>
    /\ DocumentedTools \ {"format_books_table"} \subseteq registered
    /\ Cardinality(registered) = 9

-----------------------------------------------------------------------------
(* C16, C17: failures of the tools *)

\* The environment variable is not set, empty or white space only.
EnvBlank ==
  \/ ~envKey.defined
  \/ \A i \in 1..Len(envKey.value) : envKey.value[i] = " "

\* A response of a remote tool is waiting to be sent.
RemoteAnswered == lastResponse.tool \in RemoteTools

\* An invocation of search_books with an empty query or of get_book_detail
\* with an empty isbn.
LacksArgument(tool, arg) ==
  tool \in {"search_books", "get_book_detail"} /\ arg = <<>>

\* C16: with ALADIN_TTB_KEY unset, empty or white space only, no HTTP
\* request is ever under way and every answer of a remote tool is an error
\* given without a request; search_books with an empty query and
\* get_book_detail with an empty isbn are never under way either and are
\* answered by an error without a request, whatever the key.
C16_NoRequestWithoutKey ==
  /\ EnvBlank =>
       /\ inflight = {}
       /\ RemoteAnswered =>
            lastResponse.isError /\ lastResponse.http = NoRequest
  /\ \A inv \in inflight : ~LacksArgument(inv.tool, inv.arg)
  /\ (RemoteAnswered /\ LacksArgument(lastResponse.tool, lastResponse.arg)) =>
       lastResponse.isError /\ lastResponse.http = NoRequest

\* C16's case: the variable holds white space only and a remote tool that
\* checks no argument has answered with an error, after an earlier answer.
C16_Witness ==
  /\ envKey.defined
  /\ Len(envKey.value) > 0
  /\ EnvBlank
  /\ served
  /\ lastResponse.tool = "get_bestsellers"
  /\ lastResponse.isError

\* Whether an invocation of a remote tool fails: no key, an argument
\* missing, the request rejected, a null body, or no item for
\* get_book_detail.
RemoteFails(tool, arg, http) ==
  \/ ~ttbKey.defined
  \/ ttbKey.value = <<>>
  \/ LacksArgument(tool, arg)
  \/ http \in {"rejected", "null_body"}
  \/ tool = "get_book_detail" /\ http = "no_item"

\* Whether the invocation a waiting response answers has failed.
InvocationFailed ==
  IF RemoteAnswered
  THEN RemoteFails(lastResponse.tool, lastResponse.arg, lastResponse.http)
  ELSE IF SearchAnswered \/ PopularAnswered THEN SomeNameMissing
  ELSE FALSE

\* A waiting response is a result, an error exactly when its invocation
\* failed; a search on a dataset whose leaves all have a name returns what
\* it returns on the dataset as loaded, whatever failed before.
C17_FailureIsErrorResult ==
  lastResponse.tool # "none" =>
    /\ lastResponse.text \in {"results", "not_found", "error"}
    /\ lastResponse.isError <=> InvocationFailed
    /\ lastResponse.isError <=> lastResponse.text = "error"
    /\ (SearchAnswered /\ ~SomeNameMissing) =>
         Shape(lastResponse.allCategories)
           = Shape(searchCategories(lastResponse.searchTerm, loadedData))

\* A step that ends in an error response leaves the dataset, the key, the
\* registered tools and the serving server as they were and every other
\* waiting invocation waiting.
C17_FailureTouchesNothing ==
  (lastResponse'.tool # "none" /\ lastResponse'.isError) =>
     /\ categoryData' = categoryData
     /\ ttbKey' = ttbKey
     /\ registered' = registered
     /\ phase' = phase
     /\ \A inv \in inflight :
           \/ inv \in inflight'
           \/ inv.tool = lastResponse'.tool /\ inv.arg = lastResponse'.arg

\* An invocation stops waiting only as its response is returned, one at a
\* time; a remote tool's response is that of an invocation that stops
\* waiting or of one that never made a request; a waiting response is sent
\* as it is, once.
C17_OneResponseEach ==
  /\ \A inv \in inflight \ inflight' :
        /\ inflight \ inflight' = {inv}
        /\ lastResponse.tool = "none"
        /\ lastResponse'.tool = inv.tool
        /\ lastResponse'.arg = inv.arg
  /\ (lastResponse.tool = "none" /\ lastResponse'.tool \in RemoteTools) =>
        \/ /\ lastResponse'.http = NoRequest
           /\ inflight' = inflight
        \/ /\ lastResponse'.http # NoRequest
           /\ inflight \ inflight'
                = {Invocation(lastResponse'.tool, lastResponse'.arg)}
  /\ lastResponse.tool # "none" =>
        /\ lastResponse' \in {lastResponse, NoResponse}
        /\ inflight' = inflight

=============================================================================
